---- MODULE Spec2Model ----
(***************************************************************************)
(* Model of benchmarking/scripts/benchmark-pages.py: the two filesystem    *)
(* primitives (_copy_json_files, _enforce_retention) and the two command   *)
(* handlers (prepare_history, assemble).                                   *)
(*                                                                         *)
(* The filesystem is modelled by the directories the handlers are given:   *)
(* a directory of files is a record [exists, files] whose files field maps *)
(* each file name present to its content.  File names are sequences of     *)
(* character codes, so that "*.json" globbing and the lexicographic order  *)
(* of sorted() are computed on the names themselves.  The paths an         *)
(* invocation is given are taken to be distinct and not nested.            *)
(***************************************************************************)
EXTENDS Integers, Sequences, FiniteSets, TLC

VARIABLES
    results,    \* [category -> tree] : the <category>-results directories
    previous,   \* the previous-pages snapshot
    output,     \* the --output-dir tree of assemble
    work,       \* the --output-dir tree of prepare-history
    args,       \* the command-line arguments of the invocations
    pc,         \* position of the running command
    runs,       \* number of assemble invocations started
    now,        \* assemble's local `now`
    exitCode,   \* exit status of the last command
    stdout,     \* messages printed by the last command
    stderr,     \* messages printed to sys.stderr by the last command
    atStart,    \* filesystem at the moment the last assemble was invoked
    first,      \* filesystem observations recorded during the first assemble run
    prim        \* a direct call of one of the two primitives

vars == <<results, previous, output, work, args, pc, runs, now, exitCode,
          stdout, stderr, atStart, first, prim>>

mainVars == <<results, previous, output, work, args, pc, runs, now, exitCode,
              stdout, stderr, atStart, first>>

----------------------------------------------------------------------------
(* Bounds *)

NumNames == 2
PrimNumNames == 3
MaxMaxHistory == 2
MaxRuns == 2

----------------------------------------------------------------------------
(* File names *)

JsonSuffix == <<46, 106, 115, 111, 110>>          \* ".json"

\* "10.json", "2.json", "1.json", "1-1.json", "20.json", "3.json"
NameTable ==
    << <<49, 48>> \o JsonSuffix,
       <<50>> \o JsonSuffix,
       <<49>> \o JsonSuffix,
       <<49, 45, 49>> \o JsonSuffix,
       <<50, 48>> \o JsonSuffix,
       <<51>> \o JsonSuffix >>

TextName == <<57, 46, 116, 120, 116>>             \* "9.txt"

HistoryNames == {NameTable[i] : i \in 1..NumNames}
PrimNames == {NameTable[i] : i \in 1..PrimNumNames} \cup {TextName}

\* glob("*.json"): the name ends in ".json"
IsJson(name) ==
    /\ Len(name) >= Len(JsonSuffix)
    /\ SubSeq(name, Len(name) - Len(JsonSuffix) + 1, Len(name)) = JsonSuffix

Min(a, b) == IF a < b THEN a ELSE b
Max(a, b) == IF a > b THEN a ELSE b

\* str.__lt__ on file names: code-point lexicographic order
LexLess(a, b) ==
    \E k \in 0..Min(Len(a), Len(b)) :
        /\ \A i \in 1..k : a[i] = b[i]
        /\ \/ k = Len(a) /\ k < Len(b)
           \/ k < Len(a) /\ k < Len(b) /\ a[k + 1] < b[k + 1]

\* sorted(..., reverse=True) of a set of names
RECURSIVE SortDesc(_)
SortDesc(S) ==
    IF S = {} THEN <<>>
    ELSE LET m == CHOOSE x \in S : \A y \in S \ {x} : LexLess(y, x)
         IN  <<m>> \o SortDesc(S \ {m})

\* Python's seq[start:] (a negative start counts from the end)
SliceFrom(seq, start) ==
    LET s == IF start >= 0 THEN Min(start, Len(seq))
             ELSE Max(Len(seq) + start, 0)
    IN  SubSeq(seq, s + 1, Len(seq))

Range(seq) == {seq[i] : i \in 1..Len(seq)}

----------------------------------------------------------------------------
(* Directories of files *)

NoFiles == [n \in {} |-> ""]
AbsentDir == [exists |-> FALSE, files |-> NoFiles]

Names(dir) == DOMAIN dir.files
JsonNames(dir) == {n \in Names(dir) : IsJson(n)}

\* shutil.copy2 of the files `names` of src onto dst (overwrites)
CopyOver(srcFiles, dstFiles, names) ==
    [n \in (DOMAIN dstFiles) \cup names |->
        IF n \in names THEN srcFiles[n] ELSE dstFiles[n]]

\* variant: the skip_existing test is dropped, every source file is copied
CopyJsonFilesOverwriting(src, dst, skip_existing) ==
    LET copied == JsonNames(src)
    IN  [dir    |-> [exists |-> TRUE, files |-> CopyOver(src.files, dst.files, copied)],
         copied |-> Cardinality(copied)]

\* _copy_json_files(src_dir, dst_dir, skip_existing): [dir, copied]
CopyJsonFiles(src, dst, skip_existing) ==
    LET copied == {n \in JsonNames(src) : ~(skip_existing /\ n \in Names(dst))}
    IN  [dir    |-> [exists |-> TRUE, files |-> CopyOver(src.files, dst.files, copied)],
         copied |-> Cardinality(copied)]

Reverse(seq) == [i \in 1..Len(seq) |-> seq[Len(seq) + 1 - i]]

\* variant: sorted() without reverse=True, the oldest names are kept
EnforceRetentionAscending(history_dir, max_files) ==
    IF ~history_dir.exists THEN [dir |-> history_dir, removed |-> 0]
    ELSE LET files == Reverse(SortDesc(JsonNames(history_dir)))
             old   == SliceFrom(files, max_files)
             keep  == Names(history_dir) \ Range(old)
         IN  [dir     |-> [exists |-> TRUE,
                           files  |-> [n \in keep |-> history_dir.files[n]]],
              removed |-> Len(old)]

\* variant: the loop stops after the first file it removes
EnforceRetentionOnce(history_dir, max_files) ==
    IF ~history_dir.exists THEN [dir |-> history_dir, removed |-> 0]
    ELSE LET files == SortDesc(JsonNames(history_dir))
             rest  == SliceFrom(files, max_files)
             old   == SubSeq(rest, 1, Min(1, Len(rest)))
             keep  == Names(history_dir) \ Range(old)
         IN  [dir     |-> [exists |-> TRUE,
                           files  |-> [n \in keep |-> history_dir.files[n]]],
              removed |-> Len(old)]

\* _enforce_retention(history_dir, max_files): [dir, removed]
EnforceRetention(history_dir, max_files) ==
    IF ~history_dir.exists THEN [dir |-> history_dir, removed |-> 0]
    ELSE LET files == SortDesc(JsonNames(history_dir))
             old   == SliceFrom(files, max_files)
             keep  == Names(history_dir) \ Range(old)
         IN  [dir     |-> [exists |-> TRUE,
                           files  |-> [n \in keep |-> history_dir.files[n]]],
              removed |-> Len(old)]

----------------------------------------------------------------------------
(* Direct calls of the primitives *)

PrimContents == {"a", "b"}

PrimDirs ==
    {AbsentDir} \cup
    {[exists |-> TRUE, files |-> f] :
        f \in UNION {[S -> PrimContents] : S \in SUBSET PrimNames}}

PrimIdle ==
    [op |-> "none", src |-> AbsentDir, dst |-> AbsentDir, skip_existing |-> FALSE,
     max_files |-> 0, after |-> AbsentDir, ret |-> 0, returned |-> FALSE]

InitPrim ==
    \/ \E s \in PrimDirs, d \in PrimDirs, k \in BOOLEAN :
          prim = [PrimIdle EXCEPT !.op = "copy", !.src = s, !.dst = d,
                                  !.skip_existing = k]
    \/ \E d \in PrimDirs, m \in -PrimNumNames..(PrimNumNames + 1) :
          prim = [PrimIdle EXCEPT !.op = "retain", !.dst = d, !.max_files = m]

CallCopyJsonFiles ==
    /\ prim.op = "copy" /\ ~prim.returned
    /\ LET r == CopyJsonFiles(prim.src, prim.dst, prim.skip_existing)
       IN  prim' = [prim EXCEPT !.after = r.dir, !.ret = r.copied, !.returned = TRUE]
    /\ UNCHANGED mainVars

CallEnforceRetention ==
    /\ prim.op = "retain" /\ ~prim.returned
    /\ LET r == EnforceRetention(prim.dst, prim.max_files)
       IN  prim' = [prim EXCEPT !.after = r.dir, !.ret = r.removed, !.returned = TRUE]
    /\ UNCHANGED mainVars

----------------------------------------------------------------------------
(* Program constants *)

BENCHMARK_TYPES == <<"micro", "integration">>
Categories == Range(BENCHMARK_TYPES)

\* variant: the integration last-run badge keeps its source name
BADGE_MAPPING_COLLIDING(name) ==
    IF name = "micro"
    THEN << <<"performance-badge.json", "performance-badge.json">>,
            <<"trend-badge.json", "trend-badge.json">>,
            <<"last-run-badge.json", "last-run-badge.json">> >>
    ELSE << <<"integration-performance-badge.json", "integration-performance-badge.json">>,
            <<"integration-trend-badge.json", "integration-trend-badge.json">>,
            <<"last-run-badge.json", "last-run-badge.json">> >>

\* variant: the micro badges are prefixed like the integration ones
BADGE_MAPPING_PREFIXED(name) ==
    IF name = "micro"
    THEN << <<"performance-badge.json", "micro-performance-badge.json">>,
            <<"trend-badge.json", "micro-trend-badge.json">>,
            <<"last-run-badge.json", "micro-last-run-badge.json">> >>
    ELSE << <<"integration-performance-badge.json", "integration-performance-badge.json">>,
            <<"integration-trend-badge.json", "integration-trend-badge.json">>,
            <<"last-run-badge.json", "integration-last-run-badge.json">> >>

\* _BADGE_MAPPING[name].items(), in dict order: <<source name, name in badges/>>
BADGE_MAPPING(name) ==
    IF name = "micro"
    THEN << <<"performance-badge.json", "performance-badge.json">>,
            <<"trend-badge.json", "trend-badge.json">>,
            <<"last-run-badge.json", "last-run-badge.json">> >>
    ELSE << <<"integration-performance-badge.json", "integration-performance-badge.json">>,
            <<"integration-trend-badge.json", "integration-trend-badge.json">>,
            <<"last-run-badge.json", "integration-last-run-badge.json">> >>

BadgeSources(name) == {BADGE_MAPPING(name)[i][1] : i \in 1..Len(BADGE_MAPPING(name))}
BadgeTargets(name) == {BADGE_MAPPING(name)[i][2] : i \in 1..Len(BADGE_MAPPING(name))}

----------------------------------------------------------------------------
(* Directory trees *)

\* A results directory: its own files, history/ and badges/
AbsentTree ==
    [exists |-> FALSE, top |-> NoFiles, history |-> AbsentDir, badges |-> AbsentDir]

\* shutil.copytree(src, dst, dirs_exist_ok=True) of one subdirectory
CopySubdir(src, dst) ==
    IF src.exists
    THEN [exists |-> TRUE, files |-> CopyOver(src.files, dst.files, Names(src))]
    ELSE dst

\* variant: the destination is removed before the copy
CopyTreeFresh(src, dst) == src

\* variant: files already at the destination are kept
CopyTreeKeeping(src, dst) ==
    [exists  |-> TRUE,
     top     |-> CopyOver(src.top, dst.top, (DOMAIN src.top) \ (DOMAIN dst.top)),
     history |-> IF src.history.exists
                 THEN [exists |-> TRUE,
                       files  |-> CopyOver(src.history.files, dst.history.files,
                                           Names(src.history) \ Names(dst.history))]
                 ELSE dst.history,
     badges  |-> IF src.badges.exists
                 THEN [exists |-> TRUE,
                       files  |-> CopyOver(src.badges.files, dst.badges.files,
                                           Names(src.badges) \ Names(dst.badges))]
                 ELSE dst.badges]

\* shutil.copytree(results_dir, output_dir / name, dirs_exist_ok=True)
CopyTree(src, dst) ==
    [exists  |-> TRUE,
     top     |-> CopyOver(src.top, dst.top, DOMAIN src.top),
     history |-> CopySubdir(src.history, dst.history),
     badges  |-> CopySubdir(src.badges, dst.badges)]

NoMetadata == [exists |-> FALSE, timestamp |-> 0, commit |-> ""]

AbsentOutput ==
    [exists |-> FALSE, cat |-> [c \in Categories |-> AbsentTree],
     badges |-> AbsentDir, metadata |-> NoMetadata]

AbsentWork == [exists |-> FALSE, cat |-> [c \in Categories |-> AbsentDir]]

----------------------------------------------------------------------------
(* Arguments and messages *)

None == "None"
MicroPath == "micro-results"
IntegrationPath == "integration-results"
PreviousPath == "previous-pages"
OutputPath == "gh-pages"

ResultsArg(a, name) ==
    IF name = "micro" THEN a.micro_results ELSE a.integration_results

\* variant: both categories are collected whatever the arguments
ModulesAll(a) == <<"micro", "integration">>

\* the `modules` list of assemble, by name
Modules(a) ==
    (IF a.micro_results # None THEN <<"micro">> ELSE <<>>) \o
    (IF a.integration_results # None THEN <<"integration">> ELSE <<>>)

Msg(kind, cat, n, path) == [kind |-> kind, cat |-> cat, n |-> n, path |-> path]

----------------------------------------------------------------------------
(* prepare-history *)

\* the loop body of prepare_history for the categories `types`, in order
RECURSIVE PrepareLoop(_, _, _)
PrepareLoop(types, prev, st) ==
    IF types = <<>> THEN st
    ELSE LET benchmark_type == Head(types)
             history_src    == prev.history[benchmark_type]
         IN  IF ~history_src.exists
             THEN PrepareLoop(Tail(types), prev, st)
             ELSE LET r == CopyJsonFiles(history_src, st.work.cat[benchmark_type], FALSE)
                  IN  PrepareLoop(Tail(types), prev,
                         [work |-> [st.work EXCEPT !.exists = TRUE,
                                                   !.cat[benchmark_type] = r.dir],
                          log  |-> Append(st.log,
                                     Msg("prepared", benchmark_type, r.copied, ""))])

\* variant: the previous_dir.is_dir() test is dropped
PrepareHistoryUnchecked ==
    /\ pc = "idle"
    /\ args.previous_pages_dir # None
    /\ LET st == PrepareLoop(BENCHMARK_TYPES, previous, [work |-> work, log |-> <<>>])
       IN  /\ work' = st.work
           /\ stdout' = st.log
    /\ stderr' = <<>>
    /\ exitCode' = 0
    /\ pc' = "prepared"
    /\ UNCHANGED <<results, previous, output, args, runs, now, atStart, first, prim>>

PrepareHistory ==
    /\ pc = "idle"
    /\ args.previous_pages_dir # None
    /\ IF ~previous.exists
       THEN /\ stdout' = <<Msg("no-previous-pages", "", 0, args.previous_pages_dir)>>
            /\ work' = work
       ELSE LET st == PrepareLoop(BENCHMARK_TYPES, previous, [work |-> work, log |-> <<>>])
            IN  /\ work' = st.work
                /\ stdout' = st.log
    /\ stderr' = <<>>
    /\ exitCode' = 0
    /\ pc' = "prepared"
    /\ UNCHANGED <<results, previous, output, args, runs, now, atStart, first, prim>>

----------------------------------------------------------------------------
(* assemble *)

StripTimestamp(out) == [out EXCEPT !.metadata.timestamp = 0]

\* lines 99-115: read the clock, collect the modules, fail if there are none
AssembleStart ==
    /\ pc \in {"idle", "prepared", "done"}
    /\ runs < MaxRuns
    /\ runs' = runs + 1
    /\ now' = now + 1
    /\ atStart' = [results |-> results, output |-> output]
    /\ stdout' = <<>>
    /\ IF Modules(args) = <<>>
       THEN /\ stderr' = <<Msg("error-no-results", "", 0, "")>>
            /\ exitCode' = 1
            /\ pc' = "done"
            /\ first' = IF first.ended THEN first
                        ELSE [first EXCEPT !.ended = TRUE,
                                           !.output = StripTimestamp(output)]
       ELSE /\ stderr' = <<>>
            /\ exitCode' = -1
            /\ pc' = "merge"
            /\ first' = first
    /\ UNCHANGED <<results, previous, output, work, args, prim>>

\* the modules whose previous history directory exists
Merged(a, prev) ==
    IF a.previous_pages_dir # None /\ prev.exists
    THEN SelectSeq(Modules(a), LAMBDA name : prev.history[name].exists)
    ELSE <<>>

\* results_dir after the merge of one module (mkdir(parents=True) creates it)
MergeModule(results_dir, prev_history) ==
    [results_dir EXCEPT
        !.exists  = TRUE,
        !.history = CopyJsonFiles(prev_history, results_dir.history, TRUE).dir]

RECURSIVE MergeLog(_, _, _)
MergeLog(mods, res, prev) ==
    IF mods = <<>> THEN <<>>
    ELSE <<Msg("merged", Head(mods),
               CopyJsonFiles(prev.history[Head(mods)], res[Head(mods)].history, TRUE).copied,
               "")>>
         \o MergeLog(Tail(mods), res, prev)

\* lines 117-125
MergePhase ==
    /\ pc = "merge"
    /\ LET merged == Merged(args, previous)
       IN  /\ results' = [c \in Categories |->
                            IF c \in Range(merged)
                            THEN MergeModule(results[c], previous.history[c])
                            ELSE results[c]]
           /\ stdout' = stdout \o MergeLog(merged, results, previous)
    /\ pc' = "retain"
    /\ UNCHANGED <<previous, output, work, args, runs, now, exitCode, stderr,
                   atStart, first, prim>>

RECURSIVE RetentionLog(_, _, _)
RetentionLog(mods, res, max_history) ==
    IF mods = <<>> THEN <<>>
    ELSE LET removed == EnforceRetention(res[Head(mods)].history, max_history).removed
         IN  (IF removed # 0
              THEN <<Msg("removed", Head(mods), removed, "")>> ELSE <<>>)
             \o RetentionLog(Tail(mods), res, max_history)

\* lines 127-131
RetentionPhase ==
    /\ pc = "retain"
    /\ results' = [c \in Categories |->
                     IF c \in Range(Modules(args))
                     THEN [results[c] EXCEPT
                             !.history = EnforceRetention(@, args.max_history).dir]
                     ELSE results[c]]
    /\ stdout' = stdout \o RetentionLog(Modules(args), results, args.max_history)
    /\ first' = IF first.retained THEN first
                ELSE [first EXCEPT !.retained = TRUE,
                                   !.history = [c \in Categories |-> results'[c].history]]
    /\ pc' = "combine"
    /\ UNCHANGED <<previous, output, work, args, runs, now, exitCode, stderr,
                   atStart, prim>>

\* lines 150-153: promote the mapped badges that exist, in mapping order
RECURSIVE PromoteBadges(_, _, _)
PromoteBadges(items, module_badges, badge_files) ==
    IF items = <<>> THEN badge_files
    ELSE LET src_name == Head(items)[1]
             dst_name == Head(items)[2]
         IN  PromoteBadges(Tail(items), module_badges,
                IF src_name \in DOMAIN module_badges
                THEN [n \in (DOMAIN badge_files) \cup {dst_name} |->
                        IF n = dst_name THEN module_badges[src_name] ELSE badge_files[n]]
                ELSE badge_files)

\* lines 138-153: the loop over the modules, in order
RECURSIVE CombineLoop(_, _, _, _)
CombineLoop(mods, res, a, st) ==
    IF mods = <<>> THEN st
    ELSE LET name        == Head(mods)
             results_dir == res[name]
         IN  IF ~results_dir.exists
             THEN CombineLoop(Tail(mods), res, a,
                     [st EXCEPT !.log = Append(@,
                         Msg("warning-not-found", name, 0, ResultsArg(a, name)))])
             ELSE LET copied   == [st.out EXCEPT !.cat[name] = CopyTree(results_dir, @)]
                      promoted ==
                          IF results_dir.badges.exists
                          THEN [copied EXCEPT !.badges.files =
                                  PromoteBadges(BADGE_MAPPING(name),
                                                results_dir.badges.files, @)]
                          ELSE copied
                  IN  CombineLoop(Tail(mods), res, a,
                         [out |-> promoted,
                          log |-> Append(st.log, Msg("copied", name, 0, a.output_dir))])

\* lines 133-153
CombinePhase ==
    /\ pc = "combine"
    /\ LET made == [output EXCEPT !.exists = TRUE, !.badges.exists = TRUE]
           st   == CombineLoop(Modules(args), results, args, [out |-> made, log |-> <<>>])
       IN  /\ output' = st.out
           /\ stdout' = stdout \o st.log
    /\ pc' = "metadata"
    /\ UNCHANGED <<results, previous, work, args, runs, now, exitCode, stderr,
                   atStart, first, prim>>

\* sorted(output_dir.iterdir()), for the entries the model knows
Listing(out) ==
    (IF out.badges.exists THEN <<Msg("entry-dir", "", 0, "badges")>> ELSE <<>>) \o
    (IF out.cat["integration"].exists
     THEN <<Msg("entry-dir", "", 0, "integration")>> ELSE <<>>) \o
    (IF out.metadata.exists THEN <<Msg("entry-file", "", 0, "metadata.json")>> ELSE <<>>) \o
    (IF out.cat["micro"].exists THEN <<Msg("entry-dir", "", 0, "micro")>> ELSE <<>>)

\* lines 155-166, and the normal return of main()
MetadataPhase ==
    /\ pc = "metadata"
    /\ output' = [output EXCEPT !.metadata =
                    [exists |-> TRUE, timestamp |-> now, commit |-> args.commit_sha]]
    /\ stdout' = stdout \o <<Msg("assembled", "", 0, args.output_dir)>> \o Listing(output')
    /\ exitCode' = 0
    /\ pc' = "done"
    /\ first' = IF first.ended THEN first
                ELSE [first EXCEPT !.ended = TRUE, !.output = StripTimestamp(output')]
    /\ UNCHANGED <<results, previous, work, args, runs, now, stderr, atStart, prim>>

----------------------------------------------------------------------------
(* Initial filesystems and arguments *)

Current(c) == IF c = "micro" THEN "micro-current" ELSE "integration-current"
Earlier(c) == IF c = "micro" THEN "micro-previous" ELSE "integration-previous"
Stale == "stale"

FilesOf(S, content) == [n \in S |-> content]

HistoryDirs(content) ==
    {AbsentDir} \cup
    {[exists |-> TRUE, files |-> FilesOf(S, content)] : S \in SUBSET HistoryNames}

FullHistory(content) == [exists |-> TRUE, files |-> FilesOf(HistoryNames, content)]

BadgeDirs(c) ==
    {AbsentDir} \cup
    {[exists |-> TRUE, files |-> FilesOf(S, Current(c))] :
        S \in {{}, {"last-run-badge.json"}, BadgeSources(c),
               BadgeSources(c) \cup {"integration-last-run-badge.json"}}}

FullBadges(c) == [exists |-> TRUE, files |-> FilesOf(BadgeSources(c), Current(c))]

ResultsTree(c, h, b) ==
    [exists  |-> TRUE,
     top     |-> FilesOf({"benchmark-data.json"}, Current(c)),
     history |-> h,
     badges  |-> b]

AbsentPrevious == [exists |-> FALSE, history |-> [c \in Categories |-> AbsentDir]]

EmptyOutput == [AbsentOutput EXCEPT !.exists = TRUE]

\* an output directory left by some earlier deployment
StaleOutput ==
    [exists   |-> TRUE,
     cat      |-> [c \in Categories |->
                     [exists  |-> TRUE,
                      top     |-> FilesOf({"benchmark-data.json", "old-data.json"}, Stale),
                      history |-> FullHistory(Stale),
                      badges  |-> [exists |-> TRUE,
                                   files  |-> FilesOf(BadgeSources(c), Stale)]]],
     badges   |-> [exists |-> TRUE,
                   files  |-> FilesOf(BadgeTargets("micro") \cup BadgeTargets("integration"),
                                      Stale)],
     metadata |-> [exists |-> TRUE, timestamp |-> 0, commit |-> Stale]]

StaleWork ==
    [exists |-> TRUE, cat |-> [c \in Categories |-> FullHistory(Stale)]]

Args(m, i, p, n) ==
    [micro_results       |-> IF m THEN MicroPath ELSE None,
     integration_results |-> IF i THEN IntegrationPath ELSE None,
     previous_pages_dir  |-> IF p THEN PreviousPath ELSE None,
     output_dir          |-> OutputPath,
     commit_sha          |-> "sha",
     max_history         |-> n]

InitControl ==
    /\ pc = "idle"
    /\ runs = 0
    /\ now = 0
    /\ exitCode = -1
    /\ stdout = <<>>
    /\ stderr = <<>>
    /\ atStart = [results |-> results, output |-> output]
    /\ first = [ended |-> FALSE, output |-> AbsentOutput,
                retained |-> FALSE, history |-> [c \in Categories |-> AbsentDir]]

\* histories, snapshots and retention limits vary; the badges are complete
InitHistories ==
    \E m \in BOOLEAN, i \in BOOLEAN, p \in BOOLEAN, n \in -1..MaxMaxHistory :
      /\ args = Args(m, i, p, n)
      /\ \E rm \in {AbsentTree} \cup
                   (IF m THEN {ResultsTree("micro", h, FullBadges("micro")) :
                                  h \in HistoryDirs(Current("micro"))} ELSE {}),
            ri \in {AbsentTree} \cup
                   (IF i THEN {ResultsTree("integration", h, FullBadges("integration")) :
                                  h \in HistoryDirs(Current("integration"))} ELSE {}) :
            results = [c \in Categories |-> IF c = "micro" THEN rm ELSE ri]
      /\ \/ previous = AbsentPrevious
         \/ /\ p
            /\ \E hm \in HistoryDirs(Earlier("micro")),
                  hi \in HistoryDirs(Earlier("integration")) :
                  previous = [exists  |-> TRUE,
                              history |-> [c \in Categories |->
                                             IF c = "micro" THEN hm ELSE hi]]
      /\ output \in {AbsentOutput, StaleOutput}
      /\ work = AbsentWork

\* the badge directories and the prior output vary; the histories are complete
InitBadges ==
    \E m \in BOOLEAN, i \in BOOLEAN, p \in BOOLEAN :
      /\ args = Args(m, i, p, MaxMaxHistory)
      /\ \E rm \in {AbsentTree} \cup
                   (IF m THEN {ResultsTree("micro", FullHistory(Current("micro")), b) :
                                  b \in BadgeDirs("micro")} ELSE {}),
            ri \in {AbsentTree} \cup
                   (IF i THEN {ResultsTree("integration",
                                           FullHistory(Current("integration")), b) :
                                  b \in BadgeDirs("integration")} ELSE {}) :
            results = [c \in Categories |-> IF c = "micro" THEN rm ELSE ri]
      /\ \/ previous = AbsentPrevious
         \/ /\ p
            /\ previous = [exists  |-> TRUE,
                           history |-> [c \in Categories |-> FullHistory(Earlier(c))]]
      /\ output \in {AbsentOutput, EmptyOutput, StaleOutput}
      /\ work \in {AbsentWork, StaleWork}

Init ==
    /\ InitHistories \/ InitBadges
    /\ InitControl
    /\ prim = PrimIdle

Next ==
    \/ PrepareHistory
    \/ AssembleStart
    \/ MergePhase
    \/ RetentionPhase
    \/ CombinePhase
    \/ MetadataPhase

Spec == Init /\ [][Next]_vars

\* the primitives called directly on arbitrary directories
InitPrimitives ==
    /\ InitPrim
    /\ args = Args(FALSE, FALSE, FALSE, 0)
    /\ results = [c \in Categories |-> AbsentTree]
    /\ previous = AbsentPrevious
    /\ output = AbsentOutput
    /\ work = AbsentWork
    /\ InitControl

NextPrimitives ==
    \/ CallCopyJsonFiles
    \/ CallEnforceRetention

SpecPrimitives == InitPrimitives /\ [][NextPrimitives]_vars

----------------------------------------------------------------------------
(* Properties *)

Configured == Range(Modules(args))

JsonCount(dir) == Cardinality(JsonNames(dir))

\* the n lexicographically greatest elements of S
Greatest(S, n) == {x \in S : Cardinality({y \in S : LexLess(x, y)}) < n}

\* every file of directory a is in directory b with the same content
DirIncluded(a, b) ==
    a.exists => /\ b.exists
                /\ Names(a) \subseteq Names(b)
                /\ \A n \in Names(a) : b.files[n] = a.files[n]

TreeIncluded(a, b) ==
    /\ b.exists
    /\ (DOMAIN a.top) \subseteq (DOMAIN b.top)
    /\ \A n \in DOMAIN a.top : b.top[n] = a.top[n]
    /\ DirIncluded(a.history, b.history)
    /\ DirIncluded(a.badges, b.badges)

Printed(kind, cat) == \E i \in 1..Len(stdout) : stdout[i].kind = kind /\ stdout[i].cat = cat

AssembleDone == pc = "done" /\ exitCode = 0

RetainReturned == prim.op = "retain" /\ prim.returned
CopyReturned == prim.op = "copy" /\ prim.returned

\* what holds of _enforce_retention for every max_files
RetentionBasics ==
    LET d == prim.dst
        a == prim.after
    IN  /\ ~d.exists => (a = d /\ prim.ret = 0)
        /\ d.exists =>
             /\ a.exists
             /\ Names(a) \subseteq Names(d)
             /\ \A n \in Names(a) : a.files[n] = d.files[n]
             /\ (Names(d) \ JsonNames(d)) \subseteq Names(a)
             /\ prim.ret = Cardinality(Names(d) \ Names(a))

\* the N-against-k part of the retention contract
RetentionCount ==
    LET d == prim.dst
        a == prim.after
        N == prim.max_files
        k == JsonCount(d)
    IN  d.exists =>
          /\ N >= k => (prim.ret = 0 /\ a = d)
          /\ N < k  => /\ prim.ret = k - N
                       /\ JsonCount(a) = N
                       /\ JsonNames(a) = Greatest(JsonNames(d), N)

\* C1 as stated: for every directory with k JSON files and every maximum N,
\* _enforce_retention removes nothing when N >= k and otherwise removes exactly
\* k-N files, leaving exactly the N lexicographically greatest names; the count
\* returned is the number of files deleted; a missing directory gives 0.
C1_AsStated == RetainReturned => (RetentionBasics /\ RetentionCount)

\* C1 amended: the same for every maximum N >= 0; for every N the count returned
\* is the number of files deleted and a missing directory is a no-op returning 0.
C1_Retention ==
    RetainReturned => (RetentionBasics /\ (prim.max_files >= 0 => RetentionCount))

C1_Witness ==
    /\ RetainReturned
    /\ prim.dst.exists
    /\ prim.max_files > 0
    /\ prim.max_files < JsonCount(prim.dst)
    /\ prim.ret > 0
    /\ TextName \in Names(prim.dst)

\* C10: _copy_json_files with skip_existing false copies every JSON file of the
\* source over the destination; with skip_existing true every file that was at
\* the destination keeps its content and only absent names are added; the count
\* returned is the number of files copied; destination files whose names are not
\* in the source are unchanged.
C10_CopyJsonFiles ==
    CopyReturned =>
      LET s == prim.src
          d == prim.dst
          a == prim.after
      IN  /\ a.exists
          /\ Names(a) = Names(d) \cup JsonNames(s)
          /\ \A n \in Names(d) \ Names(s) : a.files[n] = d.files[n]
          /\ \A n \in Names(d) \ JsonNames(s) : a.files[n] = d.files[n]
          /\ ~prim.skip_existing =>
               /\ \A n \in JsonNames(s) : a.files[n] = s.files[n]
               /\ prim.ret = JsonCount(s)
          /\ prim.skip_existing =>
               /\ \A n \in Names(d) : a.files[n] = d.files[n]
               /\ \A n \in JsonNames(s) \ Names(d) : a.files[n] = s.files[n]
               /\ prim.ret = Cardinality(Names(a) \ Names(d))

C10_Witness ==
    /\ CopyReturned
    /\ prim.skip_existing
    /\ \E n \in JsonNames(prim.src) \cap Names(prim.dst) :
          prim.src.files[n] # prim.dst.files[n]
    /\ \E n \in JsonNames(prim.src) : n \notin Names(prim.dst)
    /\ prim.ret > 0

\* the history folders after the retention phase of a later run are those left
\* by the retention phase of the first run
HistoriesRepeat ==
    (pc = "combine" /\ runs >= 2) =>
        \A c \in Categories : results[c].history = first.history[c]

\* C2 as stated: for any history contents, any snapshot and any max-history,
\* merging and retaining a second time leaves the same history files (names and
\* contents) as doing it once.
C2_AsStated == HistoriesRepeat

\* C2 amended: the same for any max-history >= 0.
C2_MergeRetainIdempotent == args.max_history >= 0 => HistoriesRepeat

\* the second merge re-copied an entry that the first retention had pruned,
\* and the second retention pruned again
C2_Witness ==
    /\ pc = "combine" /\ runs = 2
    /\ args.max_history >= 0
    /\ \E i \in 1..Len(stdout), j \in 1..Len(stdout) :
          /\ stdout[i].kind = "merged" /\ stdout[i].n > 0
          /\ stdout[j].kind = "removed" /\ stdout[j].cat = stdout[i].cat

\* C3: running assemble again with the same arguments leaves an output directory
\* with the same entries and file contents as after the first run, except for
\* the timestamp of metadata.json.
C3_CombineIdempotent ==
    (pc = "done" /\ runs >= 2) => StripTimestamp(output) = first.output

C3_Witness ==
    /\ AssembleDone /\ runs = 2
    /\ Configured = Categories
    /\ output.metadata.timestamp = 2
    /\ atStart.output.metadata.timestamp = 1
    /\ Printed("merged", "micro") /\ Printed("removed", "micro")
    /\ Printed("copied", "integration")

\* C4 as stated: a configured category whose results directory does not exist
\* when assemble is invoked is skipped by the combine phase, with a warning and
\* without touching <output-dir>/<category>/, the other categories are combined
\* and the exit code is 0, whatever the previous-pages snapshot holds.
C4_AsStated ==
    pc = "done" =>
      \A c \in Configured :
        ~atStart.results[c].exists =>
           /\ exitCode = 0
           /\ Printed("warning-not-found", c)
           /\ output.cat[c] = atStart.output.cat[c]
           /\ \A o \in Configured \ {c} :
                 atStart.results[o].exists => TreeIncluded(results[o], output.cat[o])

\* C5 as stated: after assemble, for every configured category whose results
\* directory exists, <output-dir>/<category>/ holds exactly the files of the
\* results directory with the same contents, so its history has at most
\* max-history JSON entries, whatever the output directory held before.
C5_AsStated ==
    AssembleDone =>
      \A c \in Configured :
        results[c].exists =>
           /\ output.cat[c] = results[c]
           /\ JsonCount(output.cat[c].history) <= args.max_history

\* C5 amended: <output-dir>/<category>/ holds every file of the results
\* directory with the same content; when <output-dir>/<category>/ did not exist
\* before the run it holds exactly those files, and then, for max-history >= 0,
\* its history has at most max-history JSON entries.
C5_OutputCopy ==
    AssembleDone =>
      \A c \in Configured :
        results[c].exists =>
           /\ TreeIncluded(results[c], output.cat[c])
           /\ ~atStart.output.cat[c].exists =>
                /\ output.cat[c] = results[c]
                /\ args.max_history >= 0 =>
                     JsonCount(output.cat[c].history) <= args.max_history

C5_Witness ==
    /\ AssembleDone /\ runs = 1
    /\ Configured = Categories
    /\ ~atStart.output.exists
    /\ results["micro"].exists
    /\ Printed("merged", "micro") /\ Printed("removed", "micro")
    /\ args.max_history > 0
    /\ JsonCount(output.cat["micro"].history) = args.max_history

MicroOnlyWithBadge ==
    /\ AssembleDone
    /\ Modules(args) = <<"micro">>
    /\ atStart.results["micro"].exists
    /\ "performance-badge.json" \in Names(atStart.results["micro"].badges)

MicroBadgePromoted ==
    /\ output.badges.exists
    /\ "performance-badge.json" \in Names(output.badges)
    /\ output.badges.files["performance-badge.json"] =
          atStart.results["micro"].badges.files["performance-badge.json"]

\* C6 as stated: assemble with only --micro-results, on an existing directory
\* with badges/performance-badge.json, ends with <output-dir>/badges/
\* performance-badge.json holding the micro badge and without
\* <output-dir>/integration/.
C6_AsStated ==
    MicroOnlyWithBadge =>
        (MicroBadgePromoted /\ ~output.cat["integration"].exists)

\* C6 amended: ... and <output-dir>/integration/ is neither created nor changed:
\* it is absent unless it was there before the run.
C6_MicroOnly ==
    MicroOnlyWithBadge =>
        /\ MicroBadgePromoted
        /\ output.cat["integration"] = atStart.output.cat["integration"]
        /\ ~atStart.output.cat["integration"].exists => ~output.cat["integration"].exists

C6_Witness ==
    /\ MicroOnlyWithBadge
    /\ runs = 1
    /\ ~atStart.output.exists
    /\ ~output.cat["integration"].exists
    /\ output.cat["micro"].exists

NoResultsGiven == args.micro_results = None /\ args.integration_results = None

\* C7: assemble without --micro-results and --integration-results exits 1 with a
\* message on stderr and without any change of the filesystem; every other
\* invocation exits 0 and writes metadata.json.
C7_ExitCodes ==
    /\ pc \in {"merge", "retain", "combine", "metadata"} =>
          (~NoResultsGiven /\ stderr = <<>>)
    /\ pc = "done" =>
          IF NoResultsGiven
          THEN /\ exitCode = 1
               /\ Len(stderr) = 1
               /\ stdout = <<>>
               /\ results = atStart.results
               /\ output = atStart.output
          ELSE /\ exitCode = 0
               /\ stderr = <<>>
               /\ output.exists
               /\ output.metadata = [exists |-> TRUE, timestamp |-> now,
                                     commit |-> args.commit_sha]

C7_Witness ==
    /\ pc = "done"
    /\ exitCode = 1
    /\ NoResultsGiven
    /\ previous.exists
    /\ output = StaleOutput

\* C8: when --previous-pages-dir does not exist, prepare-history copies nothing,
\* creates no directory under its output directory, prints one message that
\* contains the path, and exits 0.
C8_PrepareWithoutPrevious ==
    [][(pc = "idle" /\ pc' = "prepared" /\ ~previous.exists) =>
          /\ work' = work
          /\ stdout' = <<Msg("no-previous-pages", "", 0, args.previous_pages_dir)>>
          /\ stderr' = <<>>
          /\ exitCode' = 0
          /\ results' = results /\ output' = output /\ previous' = previous]_vars

C8_Witness ==
    /\ pc = "prepared"
    /\ ~previous.exists
    /\ Len(stdout) = 1
    /\ stdout[1].path = PreviousPath
    /\ ~work.exists

BadgeKeys == {<<c, i>> : c \in Categories, i \in 1..3}

\* C9: distinct (category, source name) pairs of the badge mapping have distinct
\* destination names, and after assemble every badge a combined category has
\* under a mapped source name is in <output-dir>/badges/ under its destination
\* name: with both categories, last-run-badge.json is the micro badge and
\* integration-last-run-badge.json the integration badge.
C9_BadgesDoNotCollide ==
    /\ \A k1 \in BadgeKeys, k2 \in BadgeKeys :
          (/\ k1[2] <= Len(BADGE_MAPPING(k1[1]))
           /\ k2[2] <= Len(BADGE_MAPPING(k2[1]))
           /\ k1 # k2)
          => BADGE_MAPPING(k1[1])[k1[2]][2] # BADGE_MAPPING(k2[1])[k2[2]][2]
    /\ AssembleDone =>
          \A c \in Configured :
            (results[c].exists /\ results[c].badges.exists) =>
               \A i \in 1..Len(BADGE_MAPPING(c)) :
                  LET src_name == BADGE_MAPPING(c)[i][1]
                      dst_name == BADGE_MAPPING(c)[i][2]
                  IN  src_name \in Names(results[c].badges) =>
                        /\ dst_name \in Names(output.badges)
                        /\ output.badges.files[dst_name] =
                              results[c].badges.files[src_name]

C9_Witness ==
    /\ AssembleDone
    /\ Configured = Categories
    /\ atStart.output = StaleOutput
    /\ \A c \in Categories : "last-run-badge.json" \in Names(results[c].badges)
    /\ output.badges.files["last-run-badge.json"] = Current("micro")
    /\ output.badges.files["integration-last-run-badge.json"] = Current("integration")

====
